---- MODULE Spec2Model ----
(***************************************************************************)
(* Task_Proxy of pupil_src/shared_modules/background_helper.py: a worker   *)
(* process runs _wrapper over a caller supplied generator and pipes its    *)
(* results to the foreground, where the caller polls them with fetch(),    *)
(* stops the task with cancel() and drops the proxy (__del__).             *)
(*                                                                         *)
(* Python objects travelling through the pipe are modelled by the class    *)
(* that fetch() dispatches on: a plain datum ("d1", "d2") or an instance   *)
(* of StopIteration, EarlyCancellationError or another Exception.          *)
(* The worker and the caller are two processes: every worker statement     *)
(* that touches the flag or the pipe is one step, and so is every          *)
(* iteration of the caller's poll/recv loop.  fetch() is a Python          *)
(* generator: after a yield the caller's loop body runs and may call       *)
(* fetch() or cancel() again before it resumes the suspended generator.    *)
(***************************************************************************)
EXTENDS Naturals, Sequences, FiniteSets

\* ---------------------------------------------------------------- bounds
MaxItems == 2      \* longest generator output that is enumerated
MaxCancels == 3    \* cancel()/__del__ invocations counted per behaviour

\* ------------------------------------------------------- object universe
Data == {"d1", "d2"}
\* instances of Exception classes, as isinstance() in fetch tells them apart
ExceptionObjs == {"StopIteration", "EarlyCancellationError", "Exception"}
\* what a generator may yield: data, or objects that happen to be exceptions
Yieldable == Data \cup {"StopIteration", "Exception"}
\* how the generator ends after its items: exhausted, raises, never returns
Endings == {"stop", "raise", "hang"}

RECURSIVE SeqsUpTo(_, _)
SeqsUpTo(S, n) ==
  IF n = 0 THEN {<<>>}
  ELSE LET shorter == SeqsUpTo(S, n - 1)
       IN shorter \cup {Append(s, x) : s \in {t \in shorter : Len(t) = n - 1}, x \in S}

Generators == [items : SeqsUpTo(Yieldable, MaxItems), end : Endings]

VARIABLES
  generator,              \* the generator handed to __init__ (its script)
  should_terminate_flag,  \* mp.Value(c_bool) shared by both processes
  completed,              \* self._completed
  canceled,               \* self._canceled
  process,                \* TRUE while self.process is not None
  pipe,                   \* objects sent and not yet received
  closed,                 \* the worker's sending end has been closed
  wpc,                    \* position of the worker in _wrapper
  produced,               \* number of items the generator has produced
  datum,                  \* loop variable of _wrapper
  e,                      \* exception caught by _wrapper
  cpc,                    \* position of the caller
  inDel,                  \* the running cancel was called by __del__
  suspended,              \* a fetch generator is suspended at its yield
  \* history variables
  sent,                   \* kind of every message sent, in order
  sentItems,              \* the objects sent by pipe.send(datum), in order
  itemsAfterFlag,         \* number of items sent while the flag was set
  flagAtEnd,              \* the flag ("set"/"clear") when the generator ended
  nrecv,                  \* number of messages received from the pipe
  yielded,                \* items yielded to the caller by fetch
  raised,                 \* errors raised out of fetch / cancel / __del__
  joins,                  \* number of process.join calls
  joinOk,                 \* the last join found the worker exited
  ncancel,                \* number of cancel invocations (incl. __del__)
  fetchCalled,            \* the caller has called fetch
  afterError              \* the running fetch began after fetch raised Failed

vars == <<generator, should_terminate_flag, completed, canceled, process, pipe,
          closed, wpc, produced, datum, e, cpc, inDel, suspended, sent, sentItems, itemsAfterFlag,
          flagAtEnd, nrecv,
          yielded, raised, joins, joinOk, ncancel, fetchCalled, afterError>>

workerVars == <<pipe, closed, wpc, produced, datum, e, sent, sentItems,
                itemsAfterFlag, flagAtEnd>>
callerVars == <<should_terminate_flag, completed, canceled, process, cpc, inDel,
                suspended, nrecv, yielded, raised, joins, joinOk, ncancel,
                fetchCalled, afterError>>

\* ------------------------------------------------------------- __init__
Init ==
  /\ generator \in Generators
  /\ should_terminate_flag = FALSE
  /\ completed = FALSE
  /\ canceled = FALSE
  /\ process = TRUE
  /\ pipe = <<>>
  /\ closed = FALSE
  /\ wpc = "next"
  /\ produced = 0
  /\ datum = "none"
  /\ e = "none"
  /\ cpc = "idle"
  /\ inDel = FALSE
  /\ suspended = FALSE
  /\ sent = <<>>
  /\ sentItems = <<>>
  /\ itemsAfterFlag = 0
  /\ flagAtEnd = "running"
  /\ nrecv = 0
  /\ yielded = <<>>
  /\ raised = <<>>
  /\ joins = 0
  /\ joinOk = FALSE
  /\ ncancel = 0
  /\ fetchCalled = FALSE
  /\ afterError = FALSE

\* ------------------------------------------------------------- _wrapper
\* pipe.send(obj); kind is the role the worker gives the message
Send(obj, kind) ==
  /\ pipe' = Append(pipe, obj)
  /\ sent' = Append(sent, kind)
  /\ sentItems' = IF kind = "Item" THEN Append(sentItems, obj) ELSE sentItems
  /\ itemsAfterFlag' = IF kind = "Item" /\ should_terminate_flag
                         THEN itemsAfterFlag + 1 ELSE itemsAfterFlag

\* (variant that also looks at the flag when the generator is exhausted)
wrapper_next_CheckAtEnd ==
  /\ wpc = "next"
  /\ IF produced < Len(generator.items)
       THEN /\ datum' = generator.items[produced + 1]
            /\ produced' = produced + 1
            /\ wpc' = "check"
            /\ e' = e
            /\ flagAtEnd' = flagAtEnd
       ELSE /\ generator.end \in {"stop", "raise"}
            /\ IF should_terminate_flag
                 THEN wpc' = "except" /\ e' = "EarlyCancellationError"
                 ELSE IF generator.end = "stop"
                        THEN wpc' = "else" /\ e' = e
                        ELSE wpc' = "except" /\ e' = "Exception"
            /\ flagAtEnd' = (IF should_terminate_flag THEN "set" ELSE "clear")
            /\ UNCHANGED <<datum, produced>>
  /\ UNCHANGED <<pipe, closed, sent, sentItems, itemsAfterFlag>>
  /\ UNCHANGED callerVars
  /\ UNCHANGED generator

\* for datum in generator(*args, **kwargs)
wrapper_next ==
  /\ wpc = "next"
  /\ IF produced < Len(generator.items)
       THEN /\ datum' = generator.items[produced + 1]
            /\ produced' = produced + 1
            /\ wpc' = "check"
            /\ e' = e
            /\ flagAtEnd' = flagAtEnd
       ELSE /\ generator.end \in {"stop", "raise"}
            /\ IF generator.end = "stop"
                 THEN wpc' = "else" /\ e' = e
                 ELSE wpc' = "except" /\ e' = "Exception"
            /\ flagAtEnd' = (IF should_terminate_flag THEN "set" ELSE "clear")
            /\ UNCHANGED <<datum, produced>>
  /\ UNCHANGED <<pipe, closed, sent, sentItems, itemsAfterFlag>>
  /\ UNCHANGED callerVars
  /\ UNCHANGED generator

\* (variant that looks at the flag for the first item only)
wrapper_check_FirstOnly ==
  /\ wpc = "check"
  /\ IF should_terminate_flag /\ produced = 1
       THEN wpc' = "except" /\ e' = "EarlyCancellationError"
       ELSE wpc' = "send" /\ e' = e
  /\ UNCHANGED <<pipe, closed, produced, datum, sent, sentItems, itemsAfterFlag,
                 flagAtEnd>>
  /\ UNCHANGED callerVars
  /\ UNCHANGED generator

\* if _should_terminate_flag.value: raise EarlyCancellationError
wrapper_check ==
  /\ wpc = "check"
  /\ IF should_terminate_flag
       THEN wpc' = "except" /\ e' = "EarlyCancellationError"
       ELSE wpc' = "send" /\ e' = e
  /\ UNCHANGED <<pipe, closed, produced, datum, sent, sentItems, itemsAfterFlag,
                 flagAtEnd>>
  /\ UNCHANGED callerVars
  /\ UNCHANGED generator

\* pipe.send(datum)
wrapper_send ==
  /\ wpc = "send"
  /\ Send(datum, "Item")
  /\ wpc' = "next"
  /\ UNCHANGED <<closed, produced, datum, e, flagAtEnd>>
  /\ UNCHANGED callerVars
  /\ UNCHANGED generator

\* (variant that reports failures only: nothing is sent for a cancellation)
wrapper_except_FailuresOnly ==
  /\ wpc = "except"
  /\ IF e = "EarlyCancellationError"
       THEN UNCHANGED <<pipe, sent, sentItems, itemsAfterFlag>>
       ELSE Send(e, "Failed")
  /\ wpc' = "finally"
  /\ UNCHANGED <<closed, produced, datum, e, flagAtEnd>>
  /\ UNCHANGED callerVars
  /\ UNCHANGED generator

\* except Exception as e: pipe.send(e)
wrapper_except ==
  /\ wpc = "except"
  /\ Send(e, IF e = "EarlyCancellationError" THEN "Cancelled" ELSE "Failed")
  /\ wpc' = "finally"
  /\ UNCHANGED <<closed, produced, datum, e, flagAtEnd>>
  /\ UNCHANGED callerVars
  /\ UNCHANGED generator

\* else: pipe.send(StopIteration())
wrapper_else ==
  /\ wpc = "else"
  /\ Send("StopIteration", "Completed")
  /\ wpc' = "finally"
  /\ UNCHANGED <<closed, produced, datum, e, flagAtEnd>>
  /\ UNCHANGED callerVars
  /\ UNCHANGED generator

\* finally: pipe.close(); the process then exits
wrapper_finally ==
  /\ wpc = "finally"
  /\ closed' = TRUE
  /\ wpc' = "exited"
  /\ UNCHANGED <<pipe, produced, datum, e, sent, sentItems, itemsAfterFlag,
                 flagAtEnd>>
  /\ UNCHANGED callerVars
  /\ UNCHANGED generator

\* the daemon process is killed from outside: its pipe end closes with it
kill ==
  /\ wpc \notin {"exited", "killed"}
  /\ closed' = TRUE
  /\ wpc' = "killed"
  /\ UNCHANGED <<pipe, produced, datum, e, sent, sentItems, itemsAfterFlag,
                 flagAtEnd>>
  /\ UNCHANGED callerVars
  /\ UNCHANGED generator

Worker ==
  \/ wrapper_next \/ wrapper_check \/ wrapper_send
  \/ wrapper_except \/ wrapper_else \/ wrapper_finally

\* ---------------------------------------------------------------- fetch
\* self.pipe.poll(0): something to read, or the other end is closed
Poll == pipe # <<>> \/ closed

\* (variant that calls recv without asking poll first and takes "nothing
\* there" for the end of the stream)
FetchOutcome_NoPoll ==
  IF pipe = <<>> THEN "eof"
  ELSE IF Head(pipe) = "StopIteration" THEN "completed"
  ELSE IF Head(pipe) = "EarlyCancellationError" THEN "canceled"
  ELSE IF Head(pipe) \in ExceptionObjs THEN "raise"
  ELSE "yield"

\* one pass of `while self.pipe.poll(0)`: what the recv and the isinstance
\* chain make of it
FetchOutcome ==
  IF ~Poll THEN "return"                                   \* loop condition false
  ELSE IF pipe = <<>> THEN "eof"                           \* recv raises EOFError
  ELSE IF Head(pipe) = "StopIteration" THEN "completed"
  ELSE IF Head(pipe) = "EarlyCancellationError" THEN "canceled"
  ELSE IF Head(pipe) \in ExceptionObjs THEN "raise"
  ELSE "yield"

\* (variant that looks at a datum it yields without taking it off the pipe)
FetchEffect_Peek ==
  /\ completed' = (completed \/ FetchOutcome = "completed")
  /\ canceled' = (canceled \/ FetchOutcome \in {"eof", "canceled"})
  /\ IF FetchOutcome \in {"completed", "canceled", "raise"}
       THEN pipe' = Tail(pipe) /\ nrecv' = nrecv + 1
       ELSE pipe' = pipe /\ nrecv' = nrecv

\* the effect of that pass on the proxy's fields and on the pipe
FetchEffect ==
  /\ completed' = (completed \/ FetchOutcome = "completed")
  /\ canceled' = (canceled \/ FetchOutcome \in {"eof", "canceled"})
  /\ IF FetchOutcome \in {"completed", "canceled", "raise", "yield"}
       THEN pipe' = Tail(pipe) /\ nrecv' = nrecv + 1
       ELSE pipe' = pipe /\ nrecv' = nrecv

\* the error `raise datum` throws, with the role its message had
Raise(by) == Append(raised, [by |-> by, kind |-> sent[nrecv + 1], msg |-> nrecv + 1])

FailedRaisedByFetch == \E i \in 1..Len(raised) : raised[i].by = "fetch" /\ raised[i].kind = "Failed"

\* the caller starts iterating fetch(): `if self.completed or self.canceled: return`
fetch_call ==
  /\ cpc = "idle"
  /\ cpc' = IF completed \/ canceled THEN "idle" ELSE "fetch"
  /\ fetchCalled' = TRUE
  /\ afterError' = FailedRaisedByFetch
  /\ UNCHANGED <<should_terminate_flag, completed, canceled, process, inDel,
                 suspended, nrecv, yielded, raised, joins, joinOk, ncancel>>
  /\ UNCHANGED workerVars
  /\ UNCHANGED generator

\* one pass of fetch's loop, run for the caller.  A yield hands control to
\* the caller's loop body: the outermost generator is then suspended; a
\* generator iterated inside that body is consumed without further nesting.
fetch_step ==
  /\ cpc = "fetch"
  /\ FetchEffect
  /\ yielded' = IF FetchOutcome = "yield" THEN Append(yielded, Head(pipe)) ELSE yielded
  /\ raised' = IF FetchOutcome = "raise" THEN Raise("fetch") ELSE raised
  /\ IF FetchOutcome = "yield"
       THEN IF suspended
              THEN cpc' = "fetch" /\ suspended' = suspended
              ELSE cpc' = "idle" /\ suspended' = TRUE
       ELSE cpc' = "idle" /\ suspended' = suspended
  /\ UNCHANGED <<should_terminate_flag, process, inDel, joins, joinOk, ncancel,
                 fetchCalled, afterError>>
  /\ UNCHANGED <<closed, wpc, produced, datum, e, sent, sentItems, itemsAfterFlag,
                 flagAtEnd>>
  /\ UNCHANGED generator

\* the caller's loop asks the suspended generator for its next item
fetch_resume ==
  /\ cpc = "idle"
  /\ suspended
  /\ cpc' = "fetch"
  /\ suspended' = FALSE
  /\ afterError' = FALSE
  /\ UNCHANGED <<should_terminate_flag, completed, canceled, process, inDel,
                 nrecv, yielded, raised, joins, joinOk, ncancel, fetchCalled>>
  /\ UNCHANGED workerVars
  /\ UNCHANGED generator

\* the caller leaves its loop early: the suspended generator is dropped
fetch_break ==
  /\ cpc = "idle"
  /\ suspended
  /\ suspended' = FALSE
  /\ UNCHANGED <<should_terminate_flag, completed, canceled, process, cpc, inDel,
                 nrecv, yielded, raised, joins, joinOk, ncancel, fetchCalled,
                 afterError>>
  /\ UNCHANGED workerVars
  /\ UNCHANGED generator

\* --------------------------------------------------------------- cancel
\* if self.process is not None: self.process.join(timeout); self.process = None
\* join returns when the worker has exited or the timeout has run out
\* (variant with `self.process = None` left out: the handle is kept)
Join_KeepHandle ==
  /\ joins' = IF process THEN joins + 1 ELSE joins
  /\ joinOk' = IF process THEN wpc \in {"exited", "killed"} ELSE joinOk
  /\ process' = process

Join ==
  /\ joins' = IF process THEN joins + 1 ELSE joins
  /\ joinOk' = IF process THEN wpc \in {"exited", "killed"} ELSE joinOk
  /\ process' = FALSE

\* cancel(timeout), called by the caller (del = FALSE) or by __del__ (del = TRUE,
\* once nothing refers to the proxy any more): with the task already completed
\* or canceled only the join is left to do
\* (variant with the flag written outside the `if not (completed or canceled)`)
Cancel_FlagAlways(del) ==
  /\ cpc = "idle"
  /\ ncancel < MaxCancels
  /\ ncancel' = ncancel + 1
  /\ should_terminate_flag' = TRUE
  /\ IF completed \/ canceled
       THEN /\ Join
            /\ cpc' = IF del THEN "gone" ELSE "idle"
            /\ inDel' = inDel
       ELSE /\ cpc' = "drain"
            /\ inDel' = del
            /\ UNCHANGED <<process, joins, joinOk>>
  /\ UNCHANGED <<completed, canceled, suspended, nrecv, yielded, raised,
                 fetchCalled, afterError>>
  /\ UNCHANGED workerVars
  /\ UNCHANGED generator

Cancel(del) ==
  /\ cpc = "idle"
  /\ ncancel < MaxCancels
  /\ ncancel' = ncancel + 1
  /\ IF completed \/ canceled
       THEN /\ Join
            /\ cpc' = IF del THEN "gone" ELSE "idle"
            /\ inDel' = inDel
            /\ should_terminate_flag' = should_terminate_flag
       ELSE /\ should_terminate_flag' = TRUE
            /\ cpc' = "drain"
            /\ inDel' = del
            /\ UNCHANGED <<process, joins, joinOk>>
  /\ UNCHANGED <<completed, canceled, suspended, nrecv, yielded, raised,
                 fetchCalled, afterError>>
  /\ UNCHANGED workerVars
  /\ UNCHANGED generator

cancel == Cancel(FALSE)

\* for x in self.fetch(): pass  -- one pass of fetch's loop run for cancel;
\* an error raised by fetch leaves cancel (and __del__) at once
\* (variant whose loop waits for the worker when the pipe is empty)
cancel_drain_Waiting ==
  /\ cpc = "drain"
  /\ Poll
  /\ FetchEffect
  /\ raised' = IF FetchOutcome = "raise"
                 THEN Raise(IF inDel THEN "del" ELSE "cancel")
                 ELSE raised
  /\ cpc' = CASE FetchOutcome = "yield" -> "drain"
              [] FetchOutcome = "raise" -> (IF inDel THEN "gone" ELSE "idle")
              [] OTHER -> "join"
  /\ inDel' = (inDel /\ FetchOutcome # "raise")
  /\ UNCHANGED <<should_terminate_flag, process, suspended, yielded, joins,
                 joinOk, ncancel, fetchCalled, afterError>>
  /\ UNCHANGED <<closed, wpc, produced, datum, e, sent, sentItems, itemsAfterFlag,
                 flagAtEnd>>
  /\ UNCHANGED generator

cancel_drain ==
  /\ cpc = "drain"
  /\ FetchEffect
  /\ raised' = IF FetchOutcome = "raise"
                 THEN Raise(IF inDel THEN "del" ELSE "cancel")
                 ELSE raised
  /\ cpc' = CASE FetchOutcome = "yield" -> "drain"
              [] FetchOutcome = "raise" -> (IF inDel THEN "gone" ELSE "idle")
              [] OTHER -> "join"
  /\ inDel' = (inDel /\ FetchOutcome # "raise")
  /\ UNCHANGED <<should_terminate_flag, process, suspended, yielded, joins,
                 joinOk, ncancel, fetchCalled, afterError>>
  /\ UNCHANGED <<closed, wpc, produced, datum, e, sent, sentItems, itemsAfterFlag,
                 flagAtEnd>>
  /\ UNCHANGED generator

\* the join that ends cancel; __del__ then sets self.process = None again
\* (variant that clears the flag again once the worker has been joined)
cancel_join_ResetFlag ==
  /\ cpc = "join"
  /\ Join
  /\ cpc' = IF inDel THEN "gone" ELSE "idle"
  /\ inDel' = FALSE
  /\ should_terminate_flag' = FALSE
  /\ UNCHANGED <<completed, canceled, suspended, nrecv,
                 yielded, raised, ncancel, fetchCalled, afterError>>
  /\ UNCHANGED workerVars
  /\ UNCHANGED generator

cancel_join ==
  /\ cpc = "join"
  /\ Join
  /\ cpc' = IF inDel THEN "gone" ELSE "idle"
  /\ inDel' = FALSE
  /\ UNCHANGED <<should_terminate_flag, completed, canceled, suspended, nrecv,
                 yielded, raised, ncancel, fetchCalled, afterError>>
  /\ UNCHANGED workerVars
  /\ UNCHANGED generator

\* __del__: self.cancel(timeout=0.1); self.process = None
\* runs when the last reference goes, so no fetch generator is alive
del ==
  /\ ~suspended
  /\ Cancel(TRUE)

Caller ==
  \/ fetch_call \/ fetch_step \/ fetch_resume \/ fetch_break
  \/ cancel \/ cancel_drain \/ cancel_join \/ del

Next == Worker \/ kill \/ Caller

Spec == Init /\ [][Next]_vars

\* the worker process is scheduled by the operating system, and a call the
\* caller has made runs on; nothing makes the caller call again
RunningCall == fetch_step \/ cancel_drain \/ cancel_join
FairSpec == Spec /\ WF_vars(Worker) /\ WF_vars(RunningCall)

\* the same without any promise about the worker: it may be stuck for ever
CallFairSpec == Spec /\ WF_vars(RunningCall)

TypeOK ==
  /\ generator \in Generators
  /\ should_terminate_flag \in BOOLEAN /\ completed \in BOOLEAN /\ canceled \in BOOLEAN
  /\ process \in BOOLEAN /\ closed \in BOOLEAN
  /\ wpc \in {"next", "check", "send", "except", "else", "finally", "exited", "killed"}
  /\ cpc \in {"idle", "fetch", "drain", "join", "gone"}
  /\ produced \in 0..Len(generator.items)
  /\ Len(sent) = nrecv + Len(pipe)
  /\ joins \in 0..MaxCancels /\ ncancel \in 0..MaxCancels

\* ---------------------------------------------------------------- claims
IsPrefix(s, t) == Len(s) <= Len(t) /\ \A i \in 1..Len(s) : s[i] = t[i]

Terminal == completed \/ canceled

\* the run has been left to fetch alone: no cancel, no teardown, no kill
OnlyFetched == ncancel = 0 /\ wpc # "killed"

\* C1 (safety part): for a generator that produces the finite sequence S and
\* stops without raising, with cancel never called, what the fetch calls have
\* yielded is always a prefix of S, completed is never true while an item of S
\* has not been yielded, and completed never goes back to false.
C1_CompletedAfterAllOfS ==
  /\ [](generator.end = "stop" /\ OnlyFetched
          => /\ IsPrefix(yielded, generator.items)
             /\ (completed => yielded = generator.items))
  /\ [][completed => completed']_vars

\* C2: completed and canceled are never both true; once either is true it
\* stays true and the other stays false, and a fetch called after that
\* returns at once without receiving anything.
C2_TerminalExclusive ==
  /\ [](~(completed /\ canceled))
  /\ [][/\ (completed => completed' /\ ~canceled')
        /\ (canceled => canceled' /\ ~completed')
        /\ (Terminal /\ fetch_call => nrecv' = nrecv /\ cpc' = "idle")]_vars

\* C3: for a generator that raises after producing k items, with cancel never
\* called, fetch yields those k items in order and nothing else, and the only
\* error fetch raises is the one of the Failed message, after all k items.
C3_ItemsThenError ==
  (generator.end = "raise" /\ OnlyFetched)
    => /\ IsPrefix(yielded, generator.items)
       /\ \A i \in 1..Len(raised) :
            /\ raised[i].by = "fetch"
            /\ raised[i].kind = "Failed"
            /\ yielded = generator.items

\* C4: a fetch that is called after a fetch has raised the generator's error
\* yields nothing, raises nothing and changes neither completed nor canceled.
C4_FetchAfterErrorNoOp ==
  [][(afterError /\ cpc = "fetch")
       => UNCHANGED <<completed, canceled, yielded, raised>>]_vars

\* the caller's cancel has just found the proxy neither completed nor
\* canceled and has set the flag
CancelInvoked == cpc = "drain" /\ ~inDel

\* C5: when the generator's production steps all terminate, a cancel invoked
\* by the caller on a proxy that is neither completed nor canceled leads to
\* canceled or completed (as long as the proxy exists and nobody kills the
\* worker), and never to both.
C5_CancelReachesTerminal ==
  (generator.end # "hang")
    => /\ (CancelInvoked ~> (canceled \/ completed \/ cpc = "gone" \/ wpc = "killed"))
       /\ [](~(completed /\ canceled))

\* C6: cancel called right after construction (before any fetch), the worker
\* sees the flag at its per-item check and exits within the timeout: when
\* cancel has returned, canceled is true and the worker has exited.
C6_CancelReturnsCanceled ==
  (/\ ncancel = 1 /\ ~fetchCalled /\ cpc = "idle"
   /\ joins = 1 /\ joinOk
   /\ sent # <<>> /\ sent[Len(sent)] = "Cancelled")
    => (canceled /\ wpc = "exited")

\* C7 (as claimed): cancel on a proxy that is already completed or canceled
\* changes nothing at all: flag, pipe, completed, canceled, the worker handle
\* and the number of joins stay as they are.
C7_CancelTerminalNoOp ==
  [][(cancel /\ Terminal)
       => UNCHANGED <<should_terminate_flag, pipe, nrecv, completed, canceled,
                      process, joins>>]_vars

\* C7 (amended): cancel on a proxy that is already completed or canceled does
\* not set the flag, receives nothing and leaves completed and canceled alone;
\* it does join the worker if the handle is still held, and releases the handle.
C7_CancelTerminalOnlyJoins ==
  [][(cancel /\ Terminal)
       => /\ UNCHANGED <<should_terminate_flag, pipe, nrecv, completed, canceled,
                         raised>>
          /\ process' = FALSE
          /\ joins' = (IF process THEN joins + 1 ELSE joins)]_vars

\* a cancel has acted on a completed proxy that still held its worker: the
\* flag is false, so no cancel ever found the proxy unfinished
C7_Witness ==
  completed /\ ncancel = 1 /\ cpc = "idle" /\ ~should_terminate_flag
    /\ ~process /\ joins = 1

\* C8: once the task is completed or canceled, cancel raises nothing, one call
\* leaves the handle released and every further call changes nothing; over
\* the whole life of the proxy, teardown included, the worker is joined at
\* most once.
C8_CancelIdempotent ==
  /\ [](joins <= 1)
  /\ [][/\ (Cancel(FALSE) \/ Cancel(TRUE)) /\ Terminal
             => raised' = raised /\ process' = FALSE
        /\ (cancel /\ Terminal /\ ~process)
             => UNCHANGED <<should_terminate_flag, completed, canceled, process,
                            pipe, nrecv, yielded, raised, joins, joinOk, cpc>>]_vars

\* cancel has been called three times on a task that had completed, the
\* first of them joined the worker
C8_Witness ==
  completed /\ ~should_terminate_flag /\ ncancel = 3 /\ cpc = "idle"
    /\ ~process /\ joins = 1

\* C9: teardown never raises.
C9_TeardownNeverRaises ==
  \A i \in 1..Len(raised) : raised[i].by # "del"

\* C10: every Failed message that has been received had its error raised
\* exactly once, out of a fetch call made by the caller.
C10_ErrorSurfacedByFetch ==
  \A m \in 1..nrecv :
    sent[m] = "Failed"
      => /\ \E i \in 1..Len(raised) : raised[i].msg = m /\ raised[i].by = "fetch"
         /\ Cardinality({i \in 1..Len(raised) : raised[i].msg = m}) = 1

\* s can be obtained from t by leaving elements out
RECURSIVE IsSubseq(_, _)
IsSubseq(s, t) ==
  IF s = <<>> THEN TRUE
  ELSE IF t = <<>> THEN FALSE
  ELSE IF Head(s) = Head(t) THEN IsSubseq(Tail(s), Tail(t))
  ELSE IsSubseq(s, Tail(t))

\* the Item messages received so far, by fetch or by cancel's drain
ReceivedItems == SubSeq(sentItems, 1, Cardinality({m \in 1..nrecv : sent[m] = "Item"}))

\* C11 (as claimed): what the fetch calls have yielded to the caller is always
\* a prefix of the Item messages the worker has sent, and those are a prefix
\* of the generator's output.
C11_YieldedPrefixOfSent ==
  /\ IsPrefix(yielded, sentItems)
  /\ IsPrefix(sentItems, generator.items)

\* C11 (amended): what the fetch calls have yielded to the caller is, in the
\* order of sending, a selection of the Item messages received so far (those
\* that cancel drained or that fetch took for a sentinel are left out), and
\* the Item messages sent are a prefix of the generator's output: nothing is
\* yielded twice, out of order or without having been sent.
C11_YieldedInSendingOrder ==
  /\ IsSubseq(yielded, ReceivedItems)
  /\ IsPrefix(sentItems, generator.items)

\* two different items have been yielded, in the order they were sent
C11_Witness ==
  Len(yielded) = 2 /\ yielded[1] # yielded[2] /\ yielded = sentItems

\* C12: a pass of fetch that finds no message in the pipe while the worker's
\* end is still open ends the fetch call: nothing is received, yielded or
\* raised, and completed, canceled, the flag and the worker handle stay as
\* they are.
C12_FetchNeverWaits ==
  [][(fetch_step /\ pipe = <<>> /\ ~closed)
       => /\ cpc' = "idle"
          /\ UNCHANGED <<nrecv, yielded, raised, completed, canceled,
                         should_terminate_flag, process>>]_vars

\* a fetch has been called and has returned while the worker, still running,
\* had sent nothing yet
C12_Witness ==
  /\ fetchCalled /\ cpc = "idle" /\ ~suspended
  /\ sent = <<>> /\ ~closed /\ ncancel = 0
  /\ ~completed /\ ~canceled

TerminalKinds == {"Completed", "Cancelled", "Failed"}

\* positions of the terminal messages among the messages sent
TerminalsSent == {m \in 1..Len(sent) : sent[m] \in TerminalKinds}

\* the worker has left the try statement of _wrapper
WrapperDone == wpc \in {"finally", "exited"}

\* C13: the worker never sends more than one terminal message and never sends
\* anything after it; once it has left its try statement, whether the
\* generator was exhausted, cancelled or failed, it has sent exactly one, and
\* when it has exited its sending end is closed.
C13_OneTerminalMessageLast ==
  /\ Cardinality(TerminalsSent) <= 1
  /\ \A m \in TerminalsSent : m = Len(sent)
  /\ (WrapperDone => Cardinality(TerminalsSent) = 1)
  /\ (wpc = "exited" => closed)

\* the worker has sent an item, then Cancelled, and has exited
C13_Witness ==
  wpc = "exited" /\ closed /\ sent = <<"Item", "Cancelled">>

C15_AtMostOneItemAfterFlag ==
  /\ itemsAfterFlag <= 1
  /\ (should_terminate_flag /\ wpc = "send" => itemsAfterFlag = 0)
  /\ (itemsAfterFlag = 1 /\ wpc = "check" => should_terminate_flag)

\* the worker has sent one item after the flag was set, has then seen the
\* flag at the check of the next item, and has sent Cancelled
C15_Witness ==
  itemsAfterFlag = 1 /\ wpc = "exited" /\ sent = <<"Item", "Cancelled">>

\* C16: the flag is false as long as cancel has not been called, it changes
\* only in the step in which cancel (called by the caller or by __del__) finds
\* the proxy unfinished, never in a step of the worker or of fetch, and once
\* true it stays true.
C16_FlagMonotonic ==
  /\ [](ncancel = 0 => ~should_terminate_flag)
  /\ [][/\ (should_terminate_flag => should_terminate_flag')
        /\ (should_terminate_flag' # should_terminate_flag
              => (cancel \/ del) /\ ~Terminal /\ should_terminate_flag')]_vars

\* the flag is still true after cancel has returned, the worker has seen it
\* and exited, and a later fetch has received the worker's Cancelled
C16_Witness ==
  /\ should_terminate_flag /\ cpc = "idle" /\ wpc = "exited"
  /\ canceled /\ ~process /\ fetchCalled /\ sent[Len(sent)] = "Cancelled"

\* the worker was killed before it had sent a terminal message
Severed == wpc = "killed" /\ TerminalsSent = {}

\* C17: once the worker has been killed without having sent a terminal
\* message, every pass of a fetch yields the next buffered item while there
\* is one, and sets canceled when there is none; it never sets completed and
\* never raises.
C17_SeveredChannelCancels ==
  [][(Severed /\ fetch_step)
       => /\ completed' = completed
          /\ raised' = raised
          /\ (pipe # <<>> => yielded' = Append(yielded, Head(pipe)) /\ canceled' = canceled)
          /\ (pipe = <<>> => yielded' = yielded /\ canceled')]_vars

\* C18: when a cancel call (the caller's or that of __del__) is over, the
\* worker has been joined and the handle has been released, whatever the drain
\* loop of cancel has received.
C18_CancelJoinsAndReleases ==
  (ncancel >= 1 /\ cpc \notin {"drain", "join"}) => (~process /\ joins = 1)

\* a cancel call is running
InCancel == cpc \in {"drain", "join"}

\* C19: every cancel call comes to its end, with no help from the worker: a
\* pass of its drain loop can always be made at once, and the call is over
\* after finitely many of them and the join.
C19_CancelTerminates ==
  /\ [](cpc = "drain" => ENABLED cancel_drain)
  /\ (InCancel ~> ~InCancel)

\* cancel has returned although the worker is stuck in a production step
\* that never ends: the join has timed out
C19_Witness ==
  /\ generator.end = "hang" /\ wpc = "next" /\ produced = Len(generator.items)
  /\ should_terminate_flag /\ cpc = "idle" /\ ncancel = 1
  /\ ~process /\ joins = 1 /\ ~joinOk /\ ~completed /\ ~canceled

\* C20: whatever value the generator produced, the worker sends it as an
\* item, and the pass of fetch that receives an item yields that value to the
\* caller, changes neither completed nor canceled and raises nothing.
C20_ItemsAreOpaque ==
  /\ [](IsPrefix(sentItems, generator.items))
  /\ [][(fetch_step /\ pipe # <<>> /\ sent[nrecv + 1] = "Item")
          => /\ yielded' = Append(yielded, Head(pipe))
             /\ UNCHANGED <<completed, canceled, raised>>]_vars

====
